---- MODULE Spec2Model ----
(***************************************************************************)
(* The ChatAI submodule of AnkiBrain: the startup sequence and the         *)
(* line-protocol loop of ChatAI/__init__.py, the credential checks of      *)
(* LLMProvider.py and the conversation memory of ChatAIWithoutDocuments.   *)
(***************************************************************************)
EXTENDS Integers, Sequences, FiniteSets, TLC

(* ------------------------------ bounds --------------------------------- *)

\* Largest number of turns kept in a conversation memory: a question that would
\* add one more is not offered.
MaxTurns == 2
\* Largest number of documents in the store, and so of entries of 'documents'.
MaxDocs == 2
\* Largest value of total_cost: a model call never bills beyond it.
MaxCost == 1
\* Largest number of characters typed into the token field of the dialog.
MaxTokenLen == 3

(* ----------------------------- vocabulary ------------------------------ *)

\* The value of a response that has no total_cost field.
NoCost == -1

\* The request tags handle_module_input has a branch for.
RequestTags ==
    {"ASK_CONVERSATION_DOCUMENTS", "ASK_CONVERSATION_NO_DOCUMENTS", "EXPLAIN_TOPIC",
     "GENERATE_CARDS", "CLEAR_CONVERSATION", "ADD_DOCUMENTS", "DELETE_ALL_DOCUMENTS",
     "SPLIT_DOCUMENT"}

\* The response tag module_return is given in each branch.
DidTag(cmd) == CASE cmd = "ASK_CONVERSATION_DOCUMENTS" -> "DID_ASK_CONVERSATION_DOCUMENTS"
                 [] cmd = "ASK_CONVERSATION_NO_DOCUMENTS" -> "DID_ASK_CONVERSATION_NO_DOCUMENTS"
                 [] cmd = "EXPLAIN_TOPIC" -> "DID_EXPLAIN_TOPIC"
                 [] cmd = "GENERATE_CARDS" -> "DID_GENERATE_CARDS"
                 [] cmd = "CLEAR_CONVERSATION" -> "DID_CLEAR_CONVERSATION"
                 [] cmd = "ADD_DOCUMENTS" -> "DID_ADD_DOCUMENTS"
                 [] cmd = "DELETE_ALL_DOCUMENTS" -> "DID_DELETE_ALL_DOCUMENTS"
                 [] cmd = "SPLIT_DOCUMENT" -> "DID_SPLIT_DOCUMENT"

DidTags == {DidTag(c) : c \in RequestTags}

\* The members of the InterprocessCommand enumeration: the names the dispatcher uses.
ICMembers == RequestTags \cup DidTags \cup {"SUBMODULE_ERROR"}

\* A dict line without a 'cmd' key.
NoCmd == "<no cmd>"

\* cmd values of the input lines: every request tag, two enumeration members without
\* a branch, one string that is no member, and a dict without 'cmd'.
CmdValues == RequestTags \cup {"DID_CLEAR_CONVERSATION", "SUBMODULE_ERROR", "FOO", NoCmd}

\* The commands whose branch reads fields of the line.
NeedsFields == RequestTags \ {"CLEAR_CONVERSATION", "DELETE_ALL_DOCUMENTS"}

\* A dict input line: its cmd, whether the fields its branch reads are all present,
\* options.use_documents (EXPLAIN_TOPIC) and len(documents) (ADD_DOCUMENTS).
Dicts ==
    {d \in [cmd : CmdValues, complete : BOOLEAN, use_documents : BOOLEAN, ndocs : 0..MaxDocs] :
        /\ (d.cmd \notin NeedsFields => d.complete)
        /\ (d.cmd # "EXPLAIN_TOPIC" \/ ~d.complete => ~d.use_documents)
        /\ (d.cmd # "ADD_DOCUMENTS" \/ ~d.complete => d.ndocs = 0)}

\* os.getenv of a variable: None, the empty string, or a non-empty string.
EnvValues == {"unset", "empty", "set"}
EnvVars == {"OPENAI_API_KEY", "GITHUB_COPILOT_TOKEN"}

\* settings.json without an 'llmModel' key.
NoModel == "<no llmModel>"

\* settings.json: an object with an llmProvider string and no llmModel, or a file that
\* is missing or is not JSON (readable = FALSE).
Unreadable == [readable |-> FALSE, llmProvider |-> "openai", llmModel |-> NoModel]
SettingsValues ==
    {Unreadable} \cup [readable : {TRUE}, llmProvider : {"openai", "github_copilot", "bogus"},
                       llmModel : {NoModel}]

\* The llmModel values of settings.json: the key absent, the empty string, a name that
\* is no provider's default, and the default name of GitHubCopilotProvider.
ModelValues == {NoModel, "", "gpt-4", "gpt-4o"}

\* settings.json files with an llmProvider string and any llmModel.
ModelSettingsValues ==
    [readable : {TRUE}, llmProvider : {"openai", "github_copilot", "bogus"},
     llmModel : ModelValues]

\* The characters typed into the token field: a blank and a visible character.
Chars == {" ", "x"}

\* The texts of the token field: the strings of at most n characters.
Texts(n) == UNION {[1..k -> Chars] : k \in 0..n}

\* The .env file without a GITHUB_COPILOT_TOKEN line: a value that is no trimmed text.
NoToken == <<" ">>

(* ------------------------------- state --------------------------------- *)

VARIABLES
    pc,            \* "startup" before line 171, "loop" inside the while of line 191
    env,           \* the process environment after load_dotenv
    settings,      \* the content of user_files/settings.json
    nBuilt,        \* how many of withDocumentsAI, withoutDocumentsAI,
                   \* withoutDocumentsSingleQuery are bound (in that order)
    builtProvider, \* the provider kind the wrappers were constructed with
    memND,         \* withoutDocumentsAI.memory: the number of turns it holds
    docs,          \* number of documents in withDocumentsAI's store
    total_cost,    \* oa_cb.total_cost
    last,          \* the line read last and what its processing did
    lineOut,       \* the lines written to stdout by startup or for the line read last
    lastCost,      \* the total_cost field written last before lineOut (NoCost: none)
    recent,        \* how far the lines before the last one match <<ask, clear>>, see Push
    cleared,       \* CLEAR_CONVERSATION succeeded and no ASK_CONVERSATION_NO_DOCUMENTS
                   \* has succeeded since
    llm,           \* withoutDocumentsAI.llm: the handle its constructor built
    token_input,   \* GitHubCopilotTokenDialog.token_input.text()
    callback,      \* whether GitHubCopilotTokenDialog.callback is set
    dotenv,        \* the value of GITHUB_COPILOT_TOKEN in user_files/.env
    dialog,        \* the dialog: "open", "accepted" or "rejected"
    saved          \* what save_token did, when it was the step that led here

\* The state of the ChatAI process and the state of the token dialog in the host.
chatVars == <<pc, env, settings, nBuilt, builtProvider, memND, docs, total_cost,
              last, lineOut, lastCost, recent, cleared, llm>>
dialogVars == <<token_input, callback, dotenv, dialog, saved>>

vars == <<chatVars, dialogVars>>

(* ------------------------------ output --------------------------------- *)

\* _module_return({'cmd': cmd, 'data': data}): one line on stdout.
Line(tag, cost, err) == [cmd |-> tag, cost |-> cost, err |-> err]

\* _module_return({'status': 'success'})
StatusSuccess == Line("status:success", NoCost, "none")

\* module_return without the total_cost attachment of lines 31-32.
module_return_without_cost(tag, cost) == Line(tag, NoCost, "none")

\* module_return(cmd, data): the DID_* line, with data['total_cost'] = oa_cb.total_cost.
module_return(tag, cost) == Line(tag, cost, "none")

\* module_error(text): the SUBMODULE_ERROR line; data is {'error': text} alone.
module_error(text) == Line("SUBMODULE_ERROR", NoCost, text)

(* ---------------------------- credentials ------------------------------ *)

\* LLMProviderType(provider_str), with ValueError mapped to OPENAI.
ProviderType(s) ==
    LET provider_str == s.llmProvider
    IN  IF provider_str \in {"openai", "github_copilot"} THEN provider_str ELSE "openai"

\* get_api_key_env_var of each provider.
get_api_key_env_var(kind) ==
    IF kind = "openai" THEN "OPENAI_API_KEY" ELSE "GITHUB_COPILOT_TOKEN"

\* os.getenv(name) is not None
IsNotNone(e, name) == e[name] # "unset"

\* OpenAIProvider.validate_credentials / GitHubCopilotProvider.validate_credentials
validate_credentials(kind, e) ==
    IF kind = "openai" THEN IsNotNone(e, "OPENAI_API_KEY")
                       ELSE IsNotNone(e, "GITHUB_COPILOT_TOKEN")

\* check_credentials(): raises when settings.json cannot be loaded; otherwise returns
\* whether the configured provider's variable is not None, writing an error if it is.
check_credentials(s, e) ==
    IF ~s.readable
    THEN [raised |-> TRUE, ok |-> FALSE, out |-> <<>>]
    ELSE LET provider_type == ProviderType(s)
         IN  IF provider_type = "openai"
             THEN IF ~IsNotNone(e, "OPENAI_API_KEY")
                  THEN [raised |-> FALSE, ok |-> FALSE,
                        out |-> <<module_error("Please set OPENAI_API_KEY")>>]
                  ELSE [raised |-> FALSE, ok |-> TRUE, out |-> <<>>]
             ELSE IF ~IsNotNone(e, "GITHUB_COPILOT_TOKEN")
                  THEN [raised |-> FALSE, ok |-> FALSE,
                        out |-> <<module_error("Please set GITHUB_COPILOT_TOKEN")>>]
                  ELSE [raised |-> FALSE, ok |-> TRUE, out |-> <<>>]

(* ------------------------- the provider factory ------------------------ *)

\* Python's "a or b" for a string a: b when a is empty.
Or(a, b) == IF a = "" THEN b ELSE a

\* GitHubCopilotProvider.DEFAULT_MODEL
DEFAULT_MODEL == "gpt-4o"

\* The base URL of the handle ChatOpenAI builds when none is given.
OpenAIBase == "<ChatOpenAI default>"

\* openai_api_base of GitHubCopilotProvider.get_llm
CopilotBase == "https://api.githubcopilot.com"

\* LLMProviderFactory.create_provider handing back the kind's default model always.
create_provider_ignores_model(provider_type, model_name) ==
    IF provider_type = "openai"
    THEN [kind |-> "openai", model_name |-> "gpt-3.5-turbo"]
    ELSE [kind |-> "github_copilot", model_name |-> DEFAULT_MODEL]

\* LLMProviderFactory.create_provider (both members of LLMProviderType have a branch)
create_provider(provider_type, model_name) ==
    IF provider_type = "openai"
    THEN [kind |-> "openai", model_name |-> Or(model_name, "gpt-3.5-turbo")]
    ELSE [kind |-> "github_copilot", model_name |-> Or(model_name, DEFAULT_MODEL)]

\* OpenAIProvider.get_llm / GitHubCopilotProvider.get_llm: the ChatOpenAI handle, its
\* model, base URL and the variable its key is read from.
get_llm(provider) ==
    IF provider.kind = "openai"
    THEN [model_name |-> provider.model_name, api_base |-> OpenAIBase,
          key |-> "OPENAI_API_KEY"]
    ELSE [model_name |-> provider.model_name, api_base |-> CopilotBase,
          key |-> get_api_key_env_var(provider.kind)]

\* No handle: withoutDocumentsAI is not bound.
NoLLM == [model_name |-> "none", api_base |-> "none", key |-> "none"]

\* The settings read of ChatAIWithoutDocuments.__init__ taking an unknown llmProvider
\* for github_copilot.
WrapperSettings_unknown_is_copilot(s) ==
    [model_name |-> IF s.llmModel = NoModel THEN "gpt-3.5-turbo" ELSE s.llmModel,
     provider_type |-> IF s.llmProvider = "openai" THEN "openai" ELSE "github_copilot"]

\* ChatAIWithoutDocuments.__init__, lines 22-36: data.get('llmModel', 'gpt-3.5-turbo')
\* and LLMProviderType(data.get('llmProvider', 'openai')), ValueError mapped to OPENAI.
WrapperSettings(s) ==
    [model_name |-> IF s.llmModel = NoModel THEN "gpt-3.5-turbo" ELSE s.llmModel,
     provider_type |-> IF s.llmProvider \in {"openai", "github_copilot"}
                       THEN s.llmProvider ELSE "openai"]

\* ChatAIWithoutDocuments.__init__, lines 38-44: self.llm
WrapperLLM(s) ==
    LET w == WrapperSettings(s)
    IN  get_llm(create_provider(w.provider_type, w.model_name))

(* ----------------------------- the wrappers ---------------------------- *)

\* What processing one line did: the lines written, the exception raised ("none"
\* if none was), whether handle_module_input caught it itself, the wrappers' state
\* afterwards, the wrapper operations invoked, and the number of earlier turns that
\* withoutDocumentsAI.human_message sent to the model with the query.
Res(out, exc, mND, d, cost, ops, sent) ==
    [out |-> out, exc |-> exc, caught |-> FALSE, memND |-> mND, docs |-> d,
     cost |-> cost, ops |-> ops, sent |-> sent]

\* The result of a branch that raised before any wrapper operation ran.
Raise(exc, st) == Res(<<>>, exc, st.memND, st.docs, st.cost, <<>>, 0)

\* ChatAIWithoutDocuments.human_message: the chain sends the memory's turns with the
\* query and saves the new turn in the memory when the model answers.
human_message(mem) == mem + 1

\* clear_memory leaving the turns where they are.
clear_memory_keeps_turns(mem) == mem

\* ChatAIWithoutDocuments.clear_memory: self.memory.clear()
clear_memory(mem) == 0

\* Number of wrapper operations the branch of a line calls when none raises.
NCalls(d) ==
    CASE d.cmd = "CLEAR_CONVERSATION" -> 2
      [] d.cmd = "ADD_DOCUMENTS" -> d.ndocs
      [] d.cmd \in RequestTags \ {"CLEAR_CONVERSATION", "ADD_DOCUMENTS"} -> 1
      [] OTHER -> 0

\* The commands whose wrapper operation calls the model, so can add to total_cost.
CallsModel(d) ==
    d.cmd \in {"ASK_CONVERSATION_DOCUMENTS", "ASK_CONVERSATION_NO_DOCUMENTS",
               "EXPLAIN_TOPIC", "GENERATE_CARDS"}

(* --------------------- handle_module_input branches -------------------- *)
\* d: the line, st: the wrappers' state and total_cost, nb: nBuilt, fail: the wrapper
\* call that raises (0: none), c: the cost the model call adds.

\* lines 80-85
AskConversationDocuments(d, st, nb, fail, c) ==
    IF nb < 1 THEN Raise("NameError", st)
    ELSE IF ~d.complete THEN Raise("KeyError", st)
    ELSE IF fail = 1
    THEN Res(<<>>, "operation failed", st.memND, st.docs, st.cost + c,
             <<"withDocumentsAI.human_message">>, 0)
    ELSE Res(<<module_return("DID_ASK_CONVERSATION_DOCUMENTS", st.cost + c)>>, "none",
             st.memND, st.docs, st.cost + c, <<"withDocumentsAI.human_message">>, 0)

\* The ASK_CONVERSATION_NO_DOCUMENTS branch with withoutDocumentsAI bound on demand.
AskConversationNoDocuments_rebinds(d, st, nb, fail, c) ==
    IF ~d.complete THEN Raise("KeyError", st)
    ELSE Res(<<module_return("DID_ASK_CONVERSATION_NO_DOCUMENTS", st.cost + c)>>, "none",
             human_message(st.memND), st.docs, st.cost + c,
             <<"withoutDocumentsAI.human_message">>, st.memND)

\* lines 87-91
AskConversationNoDocuments(d, st, nb, fail, c) ==
    IF nb < 2 THEN Raise("NameError", st)
    ELSE IF ~d.complete THEN Raise("KeyError", st)
    ELSE IF fail = 1
    THEN Res(<<>>, "operation failed", st.memND, st.docs, st.cost + c,
             <<"withoutDocumentsAI.human_message">>, st.memND)
    ELSE Res(<<module_return("DID_ASK_CONVERSATION_NO_DOCUMENTS", st.cost + c)>>, "none",
             human_message(st.memND), st.docs, st.cost + c,
             <<"withoutDocumentsAI.human_message">>, st.memND)

\* lines 93-124
ExplainTopic(d, st, nb, fail, c) ==
    LET op == IF d.use_documents THEN "withDocumentsAI.explain_topic"
                                 ELSE "withoutDocumentsSingleQuery.explain_topic"
    IN  IF ~d.complete THEN Raise("KeyError", st)
        ELSE IF nb < (IF d.use_documents THEN 1 ELSE 3) THEN Raise("NameError", st)
        ELSE IF fail = 1
        THEN Res(<<>>, "operation failed", st.memND, st.docs, st.cost + c, <<op>>, 0)
        ELSE Res(<<module_return("DID_EXPLAIN_TOPIC", st.cost + c)>>, "none",
                 st.memND, st.docs, st.cost + c, <<op>>, 0)

\* lines 126-138: the try around generate_cards turns its exception into the error line
GenerateCards(d, st, nb, fail, c) ==
    IF ~d.complete THEN Raise("KeyError", st)
    ELSE IF nb < 3
    THEN [Res(<<module_error("NameError")>>, "NameError", st.memND, st.docs, st.cost,
              <<>>, 0) EXCEPT !.caught = TRUE]
    ELSE IF fail = 1
    THEN [Res(<<module_error("operation failed")>>, "operation failed", st.memND,
              st.docs, st.cost + c, <<"withoutDocumentsSingleQuery.generate_cards">>, 0)
          EXCEPT !.caught = TRUE]
    ELSE Res(<<module_return("DID_GENERATE_CARDS", st.cost + c)>>, "none",
             st.memND, st.docs, st.cost + c,
             <<"withoutDocumentsSingleQuery.generate_cards">>, 0)

\* CLEAR_CONVERSATION starting the cost count afresh along with the memories.
ClearConversation_resets_cost(d, st, nb, fail, c) ==
    IF nb < 2 THEN Raise("NameError", st)
    ELSE Res(<<module_return("DID_CLEAR_CONVERSATION", 0)>>, "none",
             clear_memory(st.memND), st.docs, 0,
             <<"withDocumentsAI.clear_memory", "withoutDocumentsAI.clear_memory">>, 0)

\* lines 140-144
ClearConversation(d, st, nb, fail, c) ==
    IF nb < 1 THEN Raise("NameError", st)
    ELSE IF fail = 1
    THEN Res(<<>>, "operation failed", st.memND, st.docs, st.cost,
             <<"withDocumentsAI.clear_memory">>, 0)
    ELSE IF nb < 2
    THEN Res(<<>>, "NameError", st.memND, st.docs, st.cost,
             <<"withDocumentsAI.clear_memory">>, 0)
    ELSE IF fail = 2
    THEN Res(<<>>, "operation failed", st.memND, st.docs, st.cost,
             <<"withDocumentsAI.clear_memory", "withoutDocumentsAI.clear_memory">>, 0)
    ELSE Res(<<module_return("DID_CLEAR_CONVERSATION", st.cost)>>, "none",
             clear_memory(st.memND), st.docs, st.cost,
             <<"withDocumentsAI.clear_memory", "withoutDocumentsAI.clear_memory">>, 0)

\* lines 146-158: add_document_from_path once per path, in order
AddDocuments(d, st, nb, fail, c) ==
    LET calls(k) == [i \in 1..k |-> "withDocumentsAI.add_document_from_path"]
    IN  IF ~d.complete THEN Raise("KeyError", st)
        ELSE IF d.ndocs = 0
        THEN Res(<<module_return("DID_ADD_DOCUMENTS", st.cost)>>, "none",
                 st.memND, st.docs, st.cost, <<>>, 0)
        ELSE IF nb < 1 THEN Raise("NameError", st)
        ELSE IF fail \in 1..d.ndocs
        THEN Res(<<>>, "operation failed", st.memND, st.docs + (fail - 1),
                 st.cost, calls(fail), 0)
        ELSE Res(<<module_return("DID_ADD_DOCUMENTS", st.cost)>>, "none",
                 st.memND, st.docs + d.ndocs, st.cost, calls(d.ndocs), 0)

\* The DELETE_ALL_DOCUMENTS branch without its module_return.
DeleteAllDocuments_without_reply(d, st, nb, fail, c) ==
    IF nb < 1 THEN Raise("NameError", st)
    ELSE Res(<<>>, "none", st.memND, 0, st.cost, <<"withDocumentsAI.clear_documents">>, 0)

\* lines 160-162
DeleteAllDocuments(d, st, nb, fail, c) ==
    IF nb < 1 THEN Raise("NameError", st)
    ELSE IF fail = 1
    THEN Res(<<>>, "operation failed", st.memND, st.docs, st.cost,
             <<"withDocumentsAI.clear_documents">>, 0)
    ELSE Res(<<module_return("DID_DELETE_ALL_DOCUMENTS", st.cost)>>, "none",
             st.memND, 0, st.cost, <<"withDocumentsAI.clear_documents">>, 0)

\* lines 164-167
SplitDocument(d, st, nb, fail, c) ==
    IF nb < 1 THEN Raise("NameError", st)
    ELSE IF ~d.complete THEN Raise("KeyError", st)
    ELSE IF fail = 1
    THEN Res(<<>>, "operation failed", st.memND, st.docs, st.cost,
             <<"withDocumentsAI.split_document">>, 0)
    ELSE Res(<<module_return("DID_SPLIT_DOCUMENT", st.cost)>>, "none",
             st.memND, st.docs, st.cost, <<"withDocumentsAI.split_document">>, 0)

\* A lookup that yields None for a name that is no member, as IC.get(cmd) would.
LookupRaises_only_without_cmd(d) == d.cmd = NoCmd

\* lines 77-78: data['cmd'] and IC[cmd]; KeyError unless cmd names a member
LookupRaises(d) == d.cmd = NoCmd \/ d.cmd \notin ICMembers

\* lines 77-167: the if/elif chain; a member without a branch falls through
Dispatch(d, st, nb, fail, c) ==
    IF LookupRaises(d) THEN Raise("KeyError", st)
    ELSE CASE d.cmd = "ASK_CONVERSATION_DOCUMENTS" -> AskConversationDocuments(d, st, nb, fail, c)
           [] d.cmd = "ASK_CONVERSATION_NO_DOCUMENTS" -> AskConversationNoDocuments(d, st, nb, fail, c)
           [] d.cmd = "EXPLAIN_TOPIC" -> ExplainTopic(d, st, nb, fail, c)
           [] d.cmd = "GENERATE_CARDS" -> GenerateCards(d, st, nb, fail, c)
           [] d.cmd = "CLEAR_CONVERSATION" -> ClearConversation(d, st, nb, fail, c)
           [] d.cmd = "ADD_DOCUMENTS" -> AddDocuments(d, st, nb, fail, c)
           [] d.cmd = "DELETE_ALL_DOCUMENTS" -> DeleteAllDocuments(d, st, nb, fail, c)
           [] d.cmd = "SPLIT_DOCUMENT" -> SplitDocument(d, st, nb, fail, c)
           [] OTHER -> Res(<<>>, "none", st.memND, st.docs, st.cost, <<>>, 0)

\* handle_module_input going on to the dispatch whatever check_credentials returned.
handle_module_input_unchecked(d, s, e, st, nb, fail, c) ==
    LET cc == check_credentials(s, e)
    IN  IF cc.raised THEN Raise("settings.json cannot be loaded", st)
        ELSE LET r == Dispatch(d, st, nb, fail, c) IN [r EXCEPT !.out = cc.out \o r.out]

\* handle_module_input(data): the credential check, then the dispatch
handle_module_input(d, s, e, st, nb, fail, c) ==
    LET cc == check_credentials(s, e)
    IN  IF cc.raised THEN Raise("settings.json cannot be loaded", st)
        ELSE IF ~cc.ok THEN Res(cc.out, "none", st.memND, st.docs, st.cost, <<>>, 0)
        ELSE Dispatch(d, st, nb, fail, c)

\* The loop passing over an exception of handle_module_input in silence.
HandleLine_swallows(d, s, e, st, nb, fail, c) ==
    handle_module_input(d, s, e, st, nb, fail, c)

\* lines 202-205: the try around handle_module_input writes the error of an exception
HandleLine(d, s, e, st, nb, fail, c) ==
    LET r == handle_module_input(d, s, e, st, nb, fail, c)
    IN  IF r.exc # "none" /\ ~r.caught
        THEN [r EXCEPT !.out = Append(r.out, module_error(r.exc))]
        ELSE r

(* ------------------------------ history -------------------------------- *)

\* The line a non-dict step leaves in 'last'.
NoData == [cmd |-> NoCmd, complete |-> TRUE, use_documents |-> FALSE, ndocs |-> 0]

\* What 'last' records of a step: the kind of line ("none" after startup, "empty",
\* "invalid json", "malformed", "dict"), the dict, the credential of the configured
\* provider when the line was processed (see CredState; "not read" for other lines),
\* the exception raised while it was handled, the wrapper operations invoked, the
\* turns sent to the model, whether the wrappers' state changed, whether 'cleared'
\* held when the line was read, and whether the credential was missing for an
\* earlier dict line.
LastOf(kind, d, cred, exc, ops, sent, changed, afterClear, before) ==
    [kind |-> kind, data |-> d, cred |-> cred, exc |-> exc, ops |-> ops, sent |-> sent,
     changed |-> changed, afterClear |-> afterClear, credFailedBefore |-> before]

\* The credential of the provider that settings.json configures: "unreadable" when the
\* file cannot be loaded, "missing" when the provider's variable is unset, else
\* "present".
CredState(s, e) ==
    IF ~s.readable THEN "unreadable"
    ELSE IF e[get_api_key_env_var(ProviderType(s))] = "unset" THEN "missing"
    ELSE "present"

\* The tags of a sequence of written lines.
Tags(out) == [i \in 1..Len(out) |-> out[i].cmd]

\* The total_cost fields of a sequence of written lines.
RECURSIVE CostsOf(_)
CostsOf(out) ==
    IF out = <<>> THEN <<>>
    ELSE IF Head(out).cost = NoCost THEN CostsOf(Tail(out))
    ELSE <<Head(out).cost>> \o CostsOf(Tail(out))

\* The total_cost field written last, after 'out' is written.
LastCostAfter(prev, out) ==
    LET cs == CostsOf(out) IN IF cs = <<>> THEN prev ELSE cs[Len(cs)]

\* One entry of 'recent': for an ASK_CONVERSATION_NO_DOCUMENTS or CLEAR_CONVERSATION
\* line processed with the credential present and raising nothing, the command and
\* the tags written for it; "other" for any other line.
OtherLine == [cmd |-> "other", tags |-> <<>>]
Summary(l, out) ==
    IF /\ l.kind = "dict"
       /\ l.data.cmd \in {"ASK_CONVERSATION_NO_DOCUMENTS", "CLEAR_CONVERSATION"}
       /\ l.cred = "present"
       /\ l.exc = "none"
    THEN [cmd |-> l.data.cmd, tags |-> Tags(out)]
    ELSE OtherLine

\* 'recent' is the longest run of the lines before the last one that begins the
\* sequence <<ASK_CONVERSATION_NO_DOCUMENTS, CLEAR_CONVERSATION>>, with the tags written
\* for each; the line in 'last' enters it when the next line is read.
Push(w, l, out) ==
    LET x == Summary(l, out)
    IN  IF x.cmd = "ASK_CONVERSATION_NO_DOCUMENTS" THEN <<x>>
        ELSE IF x.cmd = "CLEAR_CONVERSATION" /\ Len(w) = 1 THEN Append(w, x)
        ELSE <<>>

\* 'cleared' after a line: set by a clear that returned, reset by a question to
\* withoutDocumentsAI that was answered.
ClearedAfter(was, l) ==
    IF l.kind = "dict" /\ l.cred = "present" /\ l.exc = "none"
    THEN IF l.data.cmd = "CLEAR_CONVERSATION" THEN TRUE
         ELSE IF l.data.cmd = "ASK_CONVERSATION_NO_DOCUMENTS" THEN FALSE
         ELSE was
    ELSE was

\* The inputs of one dict line: the dict, the wrapper call that raises (0: none) and
\* the cost the model call adds.
Inputs ==
    {i \in [d : Dicts, fail : 0..MaxDocs, c : 0..MaxCost] :
        /\ i.fail <= NCalls(i.d)
        /\ (~CallsModel(i.d) => i.c = 0)}

\* The inputs with every field present, no wrapper call raising and a free model call.
PlainInputs == {i \in Inputs : i.d.complete /\ i.fail = 0 /\ i.c = 0}

(* --------------------------- the token dialog -------------------------- *)

\* str.lstrip and str.rstrip: the blanks at one end removed.
RECURSIVE lstrip(_)
lstrip(t) == IF t # <<>> /\ Head(t) = " " THEN lstrip(Tail(t)) ELSE t
RECURSIVE rstrip(_)
rstrip(t) ==
    IF t # <<>> /\ t[Len(t)] = " " THEN rstrip(SubSeq(t, 1, Len(t) - 1)) ELSE t

\* strip removing the leading blanks only.
strip_leading_only(t) == lstrip(t)

\* str.strip()
strip(t) == rstrip(lstrip(t))

\* One call save_token makes: the warning box, set_key, the callback, accept.
Call(op, arg) == [op |-> op, arg |-> arg]

\* What 'saved' holds when the last step was not save_token.
NoSave == [ran |-> FALSE, log |-> <<>>, exc |-> "none", before |-> NoToken]

\* save_token(): text is the token field, cb whether a callback is set, file the
\* token in .env; set_key or the callback may raise. Yields the calls made in order,
\* the exception that ended it, the token in .env and the dialog afterwards.
save_token(text, cb, file, setKeyRaises, callbackRaises) ==
    LET token == strip(text)
    IN  IF token = <<>>
        THEN [log |-> <<Call("QMessageBox.warning", <<>>)>>, exc |-> "none",
              dotenv |-> file, dialog |-> "open"]
        ELSE IF setKeyRaises
        THEN [log |-> <<>>, exc |-> "set_key raised", dotenv |-> file, dialog |-> "open"]
        ELSE IF cb /\ callbackRaises
        THEN [log |-> <<Call("set_key", token), Call("callback", token)>>,
              exc |-> "callback raised", dotenv |-> token, dialog |-> "open"]
        ELSE [log |-> <<Call("set_key", token)>>
                        \o (IF cb THEN <<Call("callback", token)>> ELSE <<>>)
                        \o <<Call("accept", <<>>)>>,
              exc |-> "none", dotenv |-> token, dialog |-> "accepted"]

\* The user types into the token field.
EditToken ==
    /\ dialog = "open"
    /\ \E t \in Texts(MaxTokenLen) : t # token_input /\ token_input' = t
    /\ saved' = NoSave
    /\ UNCHANGED <<callback, dotenv, dialog>>
    /\ UNCHANGED chatVars

\* on_token_save(callback)
OnTokenSave ==
    /\ ~callback
    /\ callback' = TRUE
    /\ saved' = NoSave
    /\ UNCHANGED <<token_input, dotenv, dialog>>
    /\ UNCHANGED chatVars

\* The Save button: save_token()
SaveToken ==
    /\ dialog = "open"
    /\ \E setKeyRaises, callbackRaises \in BOOLEAN :
        \E r \in {save_token(token_input, callback, dotenv, setKeyRaises, callbackRaises)} :
            /\ dotenv' = r.dotenv
            /\ dialog' = r.dialog
            /\ saved' = [ran |-> TRUE, log |-> r.log, exc |-> r.exc, before |-> dotenv]
    /\ UNCHANGED <<token_input, callback>>
    /\ UNCHANGED chatVars

\* The Cancel button: reject()
Cancel ==
    /\ dialog = "open"
    /\ dialog' = "rejected"
    /\ saved' = NoSave
    /\ UNCHANGED <<token_input, callback, dotenv>>
    /\ UNCHANGED chatVars

(* ------------------------------ actions -------------------------------- *)

\* GitHubCopilotTokenDialog.__init__: no callback, an empty token field; the .env file
\* has no token yet and the dialog is shown.
DialogInit ==
    /\ token_input = <<>>
    /\ callback = FALSE
    /\ dotenv = NoToken
    /\ dialog = "open"
    /\ saved = NoSave

\* The state before line 171 for an environment e and a settings file s.
InitWith(e, s) ==
    /\ pc = "startup"
    /\ env = e
    /\ settings = s
    /\ nBuilt = 0
    /\ builtProvider = "none"
    /\ memND = 0
    /\ docs = 0
    /\ total_cost = 0
    /\ last = LastOf("none", NoData, "not read", "none", <<>>, 0, FALSE, FALSE, FALSE)
    /\ lineOut = <<>>
    /\ lastCost = NoCost
    /\ recent = <<>>
    /\ cleared = FALSE
    /\ llm = NoLLM
    /\ DialogInit

\* Any environment and any settings file.
Init == \E e \in [EnvVars -> EnvValues], s \in SettingsValues : InitWith(e, s)

\* Both variables set and the provider configured as openai.
InitReady ==
    InitWith([v \in EnvVars |-> "set"],
             [readable |-> TRUE, llmProvider |-> "openai", llmModel |-> NoModel])

\* Lines 171-188: what startup writes, given whether creating or loading .env raised
\* and how many wrappers get constructed before a constructor raises (3: none does).
StartupOut(s, e, io, b) ==
    LET cc == check_credentials(s, e)
    IN  IF io THEN <<module_error(".env cannot be created")>>
        ELSE IF cc.raised THEN <<module_error("settings.json cannot be loaded")>>
        ELSE IF ~cc.ok THEN cc.out \o <<StatusSuccess>>
        ELSE IF b < 3 THEN <<module_error("constructor failed")>>
        ELSE <<StatusSuccess>>

\* Lines 180-183: the wrappers bound after startup.
StartupBuilt(s, e, io, b) ==
    LET cc == check_credentials(s, e)
    IN  IF io \/ cc.raised \/ ~cc.ok THEN 0 ELSE b

\* Lines 170-190: startup, then the callback handler is created and the loop entered.
Startup ==
    /\ pc = "startup"
    /\ \E io \in BOOLEAN, b \in 0..3 :
        LET nb == StartupBuilt(settings, env, io, b)
        IN  /\ nBuilt' = nb
            /\ builtProvider' = IF nb > 0 THEN ProviderType(settings) ELSE "none"
            /\ lineOut' = StartupOut(settings, env, io, b)
            /\ llm' = IF nb >= 2 THEN WrapperLLM(settings) ELSE NoLLM
    /\ pc' = "loop"
    /\ total_cost' = 0
    /\ UNCHANGED <<env, settings, memND, docs, last, lastCost, recent, cleared>>
    /\ UNCHANGED dialogVars

\* The host rewrites settings.json while the process runs.
EditSettings ==
    /\ pc = "loop"
    /\ \E s \in SettingsValues : s # settings /\ settings' = s
    /\ UNCHANGED <<pc, env, nBuilt, builtProvider, memND, docs, total_cost,
                   last, lineOut, lastCost, recent, cleared, llm>>
    /\ UNCHANGED dialogVars

\* The bookkeeping of a line that is no dict: nothing of the wrappers changes.
NonDictLine(kind, out) ==
    /\ pc = "loop"
    /\ last' = LastOf(kind, NoData, "not read", "none", <<>>, 0, FALSE, FALSE,
                      last.credFailedBefore)
    /\ lineOut' = out
    /\ lastCost' = LastCostAfter(lastCost, lineOut)
    /\ recent' = Push(recent, last, lineOut)
    /\ UNCHANGED <<pc, env, settings, nBuilt, builtProvider, memND, docs, total_cost, cleared>>
    /\ UNCHANGED <<llm, dialogVars>>

\* Lines 192-194: an empty or whitespace-only line, or end of input.
EmptyLineOut == <<>>
EmptyLine == NonDictLine("empty", EmptyLineOut)

\* The except clause of line 206 skipping the line without a word.
InvalidJsonOut_silent == <<>>

\* Lines 206-207: json.loads raises JSONDecodeError.
InvalidJsonOut == <<module_error("Invalid JSON input")>>
InvalidJson == NonDictLine("invalid json", InvalidJsonOut)

\* Line 200 going on to the next line without the error of line 199.
MalformedOut_silent == <<>>

\* Lines 198-200: a JSON value that is falsy or is no dict.
MalformedOut == <<module_error("Malformed module input")>>
MalformedInput == NonDictLine("malformed", MalformedOut)

\* Lines 197-205: a non-empty dict goes to handle_module_input.
CommandLineOf(I) ==
    /\ pc = "loop"
    /\ \E i \in I :
        /\ total_cost + i.c <= MaxCost
        /\ (i.d.cmd = "ASK_CONVERSATION_NO_DOCUMENTS" => memND < MaxTurns)
        /\ docs + i.d.ndocs <= MaxDocs
        /\ \E r \in {HandleLine(i.d, settings, env,
                                [memND |-> memND, docs |-> docs, cost |-> total_cost],
                                nBuilt, i.fail, i.c)} :
           \E l \in {LastOf("dict", i.d, CredState(settings, env), r.exc, r.ops, r.sent,
                            <<r.memND, r.docs>> # <<memND, docs>>, cleared,
                            last.credFailedBefore \/ last.cred = "missing")} :
               /\ memND' = r.memND
               /\ docs' = r.docs
               /\ total_cost' = r.cost
               /\ last' = l
               /\ lineOut' = r.out
               /\ cleared' = ClearedAfter(cleared, l)
    /\ lastCost' = LastCostAfter(lastCost, lineOut)
    /\ recent' = Push(recent, last, lineOut)
    /\ UNCHANGED <<pc, env, settings, nBuilt, builtProvider, llm>>
    /\ UNCHANGED dialogVars

CommandLine == CommandLineOf(Inputs)

\* The error handlers sys.stdin can have: "strict" unless the locale is the C locale.
StdinErrors == {"strict", "surrogateescape"}

\* Line 192 for a line whose bytes are no text in the encoding of sys.stdin: under
\* "strict" readline raises UnicodeDecodeError outside every try and the process ends
\* with a traceback on stderr; under "surrogateescape" the line is read and json.loads
\* rejects it.
UndecodableLine ==
    /\ pc = "loop"
    /\ \E errors \in StdinErrors :
        /\ pc' = IF errors = "strict" THEN "exited" ELSE "loop"
        /\ lineOut' = IF errors = "strict" THEN <<>> ELSE InvalidJsonOut
    /\ last' = LastOf("undecodable", NoData, "not read", "none", <<>>, 0, FALSE, FALSE,
                      last.credFailedBefore)
    /\ lastCost' = LastCostAfter(lastCost, lineOut)
    /\ recent' = Push(recent, last, lineOut)
    /\ UNCHANGED <<env, settings, nBuilt, builtProvider, memND, docs, total_cost, cleared>>
    /\ UNCHANGED <<llm, dialogVars>>

PlainCommandLine == CommandLineOf(PlainInputs)

\* The loop with every input, in the environment the process started in.
Next ==
    \/ Startup
    \/ EmptyLine
    \/ InvalidJson
    \/ MalformedInput
    \/ CommandLine

Spec == InitReady /\ [][Next]_vars

\* Every environment and settings file the process can start in, with the commands
\* whose operations succeed; settings.json stays as it was at startup.
NextEnv ==
    \/ Startup
    \/ EmptyLine
    \/ InvalidJson
    \/ MalformedInput
    \/ PlainCommandLine

SpecEnv == Init /\ [][NextEnv]_vars

\* Each variable unset or set, any settings file, settings.json rewritten at any
\* time, and the commands whose operations succeed.
InitCred ==
    \E e \in [EnvVars -> {"unset", "set"}], s \in SettingsValues : InitWith(e, s)

NextCred ==
    \/ Startup
    \/ EditSettings
    \/ EmptyLine
    \/ InvalidJson
    \/ MalformedInput
    \/ PlainCommandLine

SpecCred == InitCred /\ [][NextCred]_vars

\* Each variable unset or set and any llmProvider and llmModel in settings.json, which
\* stays as it was at startup; the commands whose operations succeed.
InitFactory ==
    \E e \in [EnvVars -> {"unset", "set"}], s \in ModelSettingsValues : InitWith(e, s)

SpecFactory == InitFactory /\ [][NextEnv]_vars

\* The token dialog in the host, from its construction to accept or reject.
NextDialog ==
    \/ EditToken
    \/ OnTokenSave
    \/ SaveToken
    \/ Cancel

SpecDialog == InitReady /\ [][NextDialog]_vars

\* The loop with every input, the lines that are no text among them.
NextLoop ==
    \/ Startup
    \/ EmptyLine
    \/ InvalidJson
    \/ MalformedInput
    \/ CommandLine
    \/ UndecodableLine

SpecLoop == InitReady /\ [][NextLoop]_vars


(* ------------------------------- claims -------------------------------- *)

\* A line was read in the step that led here, and one can be read next.
InLoop == pc = "loop" /\ ENABLED (EmptyLine \/ InvalidJson \/ MalformedInput \/ CommandLine)

\* C1: a non-empty line that is not valid JSON gets exactly one line on stdout, a
\* SUBMODULE_ERROR, no wrapper operation runs for it, and the loop goes on reading.
C1_InvalidJsonOneError ==
    last.kind = "invalid json" =>
        /\ Len(lineOut) = 1
        /\ lineOut[1].cmd = "SUBMODULE_ERROR"
        /\ last.ops = <<>>
        /\ ~last.changed
        /\ InLoop

C1_Witness ==
    /\ last.kind = "invalid json"
    /\ Tags(lineOut) = <<"SUBMODULE_ERROR">>
    /\ nBuilt = 3
    /\ memND > 0

C3_CostsNonDecreasing ==
    LET cs == CostsOf(lineOut)
    IN  /\ \A i \in 1..Len(cs) : lastCost <= cs[i]
        /\ \A i, j \in 1..Len(cs) : i <= j => cs[i] <= cs[j]

C3_Witness ==
    /\ last.kind = "dict"
    /\ last.data.cmd = "CLEAR_CONVERSATION"
    /\ lastCost > 0
    /\ CostsOf(lineOut) = <<lastCost>>

\* C4 as stated: startup writes exactly one line before the first line is read: the
\* success line when all three wrappers were constructed, one SUBMODULE_ERROR
\* otherwise, and never the success line after a failed credential check.
C4_StartupWritesOneLine ==
    (pc = "loop" /\ last.kind = "none") =>
        /\ Len(lineOut) = 1
        /\ (nBuilt = 3 => lineOut = <<StatusSuccess>>)
        /\ (nBuilt # 3 => lineOut[1].cmd = "SUBMODULE_ERROR")
        /\ (CredState(settings, env) = "missing" =>
                \A i \in 1..Len(lineOut) : lineOut[i] # StatusSuccess)

\* C5 as stated: for each provider kind the credential check succeeds exactly when
\* that kind's variable is set and not empty, in validate_credentials and in the
\* dispatcher's check_credentials.
C5_CredentialsValidIffNonEmpty ==
    pc = "loop" =>
        /\ \A kind \in {"openai", "github_copilot"} :
               validate_credentials(kind, env) <=> env[get_api_key_env_var(kind)] = "set"
        /\ (settings.readable =>
               (check_credentials(settings, env).ok
                   <=> env[get_api_key_env_var(ProviderType(settings))] = "set"))

\* The last line was an ASK_CONVERSATION_NO_DOCUMENTS handled with the credential
\* present and without an exception.
AnsweredAsk ==
    /\ last.kind = "dict"
    /\ last.data.cmd = "ASK_CONVERSATION_NO_DOCUMENTS"
    /\ last.cred = "present"
    /\ last.exc = "none"

\* C6: three consecutive lines ASK_CONVERSATION_NO_DOCUMENTS, CLEAR_CONVERSATION,
\* ASK_CONVERSATION_NO_DOCUMENTS handled with the credential present and without an
\* exception get exactly the three lines DID_ASK_CONVERSATION_NO_DOCUMENTS,
\* DID_CLEAR_CONVERSATION, DID_ASK_CONVERSATION_NO_DOCUMENTS, and the third sends no
\* earlier turn to the model; any question put to withoutDocumentsAI after a clear,
\* with no answered question in between, sends no earlier turn.
C6_AskClearAsk ==
    /\ (AnsweredAsk /\ Len(recent) = 2) =>
           /\ recent[1].tags = <<"DID_ASK_CONVERSATION_NO_DOCUMENTS">>
           /\ recent[2].tags = <<"DID_CLEAR_CONVERSATION">>
           /\ Tags(lineOut) = <<"DID_ASK_CONVERSATION_NO_DOCUMENTS">>
           /\ last.sent = 0
    /\ (last.ops = <<"withoutDocumentsAI.human_message">> /\ last.afterClear) =>
           last.sent = 0

C6_Witness ==
    /\ AnsweredAsk
    /\ Len(recent) = 2
    /\ recent[1].cmd = "ASK_CONVERSATION_NO_DOCUMENTS"
    /\ recent[2].cmd = "CLEAR_CONVERSATION"
    /\ Tags(lineOut) = <<"DID_ASK_CONVERSATION_NO_DOCUMENTS">>
    /\ last.afterClear
    /\ memND = 1

\* C7: a dict line processed while the configured provider's variable is unset gets
\* exactly one SUBMODULE_ERROR, runs no wrapper operation and changes no memory and
\* no document; a later command processed with the variable set and the wrappers
\* constructed is executed and answered with its DID_* line.
C7_CredentialsRecheckedPerLine ==
    /\ (last.kind = "dict" /\ last.cred = "missing") =>
           /\ Len(lineOut) = 1
           /\ lineOut[1].cmd = "SUBMODULE_ERROR"
           /\ lineOut[1].err \in {"Please set OPENAI_API_KEY", "Please set GITHUB_COPILOT_TOKEN"}
           /\ last.ops = <<>>
           /\ ~last.changed
           /\ InLoop
    /\ (/\ last.kind = "dict"
        /\ last.cred = "present"
        /\ last.credFailedBefore
        /\ last.data.cmd \in RequestTags
        /\ last.data.complete
        /\ nBuilt = 3) =>
           /\ last.exc = "none"
           /\ Tags(lineOut) = <<DidTag(last.data.cmd)>>
           /\ Len(last.ops) = NCalls(last.data)

C7_Witness ==
    /\ last.kind = "dict"
    /\ last.cred = "present"
    /\ last.credFailedBefore
    /\ last.data.cmd = "ASK_CONVERSATION_NO_DOCUMENTS"
    /\ Tags(lineOut) = <<"DID_ASK_CONVERSATION_NO_DOCUMENTS">>
    /\ last.changed

\* C8: when the wrapper operation of a recognized command raises, exactly one line is
\* written for the command, a SUBMODULE_ERROR, and the loop goes on reading.
C8_OperationFailureOneError ==
    (last.kind = "dict" /\ last.exc = "operation failed") =>
        /\ last.data.cmd \in RequestTags
        /\ Len(lineOut) = 1
        /\ lineOut[1].cmd = "SUBMODULE_ERROR"
        /\ InLoop

C8_Witness ==
    /\ last.kind = "dict"
    /\ last.exc = "operation failed"
    /\ last.data.cmd = "ADD_DOCUMENTS"
    /\ last.changed
    /\ Tags(lineOut) = <<"SUBMODULE_ERROR">>

\* C9: a recognized command that passes the credential check and is handled without
\* an exception gets exactly one line, its DID_* response with the accumulator's
\* value, written in the iteration that read it, before the next line is read.
C9_OneResponsePerCommand ==
    (/\ last.kind = "dict"
     /\ last.data.cmd \in RequestTags
     /\ last.cred = "present"
     /\ last.exc = "none") =>
        /\ lineOut = <<[cmd |-> DidTag(last.data.cmd), cost |-> total_cost, err |-> "none"]>>
        /\ InLoop

C9_Witness ==
    /\ last.kind = "dict"
    /\ last.data.cmd = "SPLIT_DOCUMENT"
    /\ last.exc = "none"
    /\ Tags(lineOut) = <<"DID_SPLIT_DOCUMENT">>
    /\ total_cost > 0

\* C10 as stated: a dict whose cmd is not one of the eight request tags gets no line
\* at all.
C10_UnrecognizedDropped ==
    (last.kind = "dict" /\ last.data.cmd \notin RequestTags \cup {NoCmd}) => lineOut = <<>>

\* C10 amended: with the credential present, a cmd that names a member of the
\* enumeration without a branch (a DID_* tag, SUBMODULE_ERROR) gets no line and runs
\* no operation; a cmd that names no member gets exactly one SUBMODULE_ERROR, the
\* KeyError of the lookup; the loop goes on in both cases.
C10_UnknownMemberDroppedElseError ==
    (last.kind = "dict" /\ last.cred = "present" /\ last.data.cmd \notin RequestTags \cup {NoCmd}) =>
        /\ last.ops = <<>>
        /\ InLoop
        /\ (last.data.cmd \in ICMembers => lineOut = <<>>)
        /\ (last.data.cmd \notin ICMembers => lineOut = <<module_error("KeyError")>>)

C10_Witness ==
    /\ last.kind = "dict"
    /\ last.data.cmd = "FOO"
    /\ last.cred = "present"
    /\ lineOut = <<module_error("KeyError")>>
    /\ nBuilt = 3

\* The variable os.getenv reads for OPENAI_API_KEY is set.
OpenAIKeySet == env["OPENAI_API_KEY"] # "unset"

\* C11: with an llmProvider in settings.json that is neither "openai" nor
\* "github_copilot", the credential check asks for OPENAI_API_KEY and for nothing else,
\* raising nothing, and the handle of the conversation wrapper is the OpenAI one;
\* startup with all constructors succeeding writes the success line alone.
C11_UnknownProviderIsOpenAI ==
    (pc = "loop" /\ settings.llmProvider \notin {"openai", "github_copilot"}) =>
        /\ check_credentials(settings, env) =
               IF OpenAIKeySet
               THEN [raised |-> FALSE, ok |-> TRUE, out |-> <<>>]
               ELSE [raised |-> FALSE, ok |-> FALSE,
                     out |-> <<module_error("Please set OPENAI_API_KEY")>>]
        /\ (nBuilt > 0 => builtProvider = "openai" /\ OpenAIKeySet)
        /\ (nBuilt >= 2 => llm.api_base = OpenAIBase /\ llm.key = "OPENAI_API_KEY")
        /\ (last.kind = "none" /\ nBuilt = 3 => lineOut = <<StatusSuccess>>)
        /\ (last.kind = "dict" => last.cred = IF OpenAIKeySet THEN "present" ELSE "missing")

C11_Witness ==
    /\ settings.llmProvider = "bogus"
    /\ env["GITHUB_COPILOT_TOKEN"] = "unset"
    /\ nBuilt = 3
    /\ llm.api_base = OpenAIBase
    /\ last.kind = "dict"
    /\ Tags(lineOut) = <<"DID_ASK_CONVERSATION_NO_DOCUMENTS">>

\* C12: for each provider kind and each non-empty model name the factory gives a
\* provider of that kind with that name, and with such an llmModel in settings.json
\* the conversation wrapper's handle has that model, at the Copilot endpoint with the
\* Copilot token for github_copilot and at the default endpoint for openai.
C12_FactoryKeepsModelName ==
    /\ \A kind \in {"openai", "github_copilot"}, m \in ModelValues \ {NoModel, ""} :
           create_provider(kind, m) = [kind |-> kind, model_name |-> m]
    /\ (pc = "loop" /\ nBuilt >= 2 /\ settings.llmModel \notin {NoModel, ""}) =>
           /\ llm.model_name = settings.llmModel
           /\ (settings.llmProvider = "github_copilot" =>
                   llm.api_base = CopilotBase /\ llm.key = "GITHUB_COPILOT_TOKEN")
           /\ (settings.llmProvider = "openai" =>
                   llm.api_base = OpenAIBase /\ llm.key = "OPENAI_API_KEY")

C12_Witness ==
    /\ settings.llmProvider = "github_copilot"
    /\ settings.llmModel = "gpt-4"
    /\ nBuilt = 3
    /\ llm.model_name = "gpt-4"
    /\ llm.api_base = CopilotBase

\* C13 as stated: a dict line read after the wrappers were constructed has its
\* credential checked for the provider they were constructed with, whose variable was
\* set at startup and still is: the check passes and writes no "Please set" error,
\* whatever has become of settings.json.
C13_SettingsImmutable ==
    (last.kind = "dict" /\ builtProvider # "none") =>
        /\ last.cred = "present"
        /\ \A i \in 1..Len(lineOut) :
               lineOut[i].err \notin {"Please set OPENAI_API_KEY",
                                      "Please set GITHUB_COPILOT_TOKEN"}

\* The commands that use a conversation wrapper.
ConversationCmds ==
    {"ASK_CONVERSATION_DOCUMENTS", "ASK_CONVERSATION_NO_DOCUMENTS", "EXPLAIN_TOPIC",
     "GENERATE_CARDS", "CLEAR_CONVERSATION"}

\* How many of the three wrappers, in the order of their construction, must be bound
\* for the branch of a conversation command to reach its module_return.
WrappersNeeded(d) ==
    CASE d.cmd = "ASK_CONVERSATION_DOCUMENTS" -> 1
      [] d.cmd = "ASK_CONVERSATION_NO_DOCUMENTS" -> 2
      [] d.cmd = "CLEAR_CONVERSATION" -> 2
      [] d.cmd = "GENERATE_CARDS" -> 3
      [] d.cmd = "EXPLAIN_TOPIC" -> IF d.use_documents THEN 1 ELSE 3

\* C14 as stated: after a startup that did not construct all three wrappers, every
\* conversation command gets exactly one SUBMODULE_ERROR and no DID_* line.
C14_NoConversationAfterFailedStartup ==
    (last.kind = "dict" /\ last.data.cmd \in ConversationCmds /\ nBuilt < 3) =>
        /\ Tags(lineOut) = <<"SUBMODULE_ERROR">>
        /\ InLoop

\* C14 amended: a conversation command that uses a wrapper startup left unbound gets
\* exactly one SUBMODULE_ERROR and no DID_* line, also when the credential check
\* passes for it, and the loop goes on; after a startup that bound no wrapper that is
\* every conversation command. A command whose wrappers were all bound before the
\* constructor that raised is answered with its DID_* line.
C14_UnboundWrapperNeverAnswers ==
    (last.kind = "dict" /\ last.data.cmd \in ConversationCmds /\ last.data.complete) =>
        /\ InLoop
        /\ (nBuilt < WrappersNeeded(last.data) => Tags(lineOut) = <<"SUBMODULE_ERROR">>)
        /\ (nBuilt >= WrappersNeeded(last.data) /\ last.cred = "present" /\ last.exc = "none"
                => Tags(lineOut) = <<DidTag(last.data.cmd)>>)

C14_Witness ==
    /\ nBuilt = 0
    /\ last.kind = "dict"
    /\ last.data.cmd = "ASK_CONVERSATION_NO_DOCUMENTS"
    /\ last.credFailedBefore
    /\ last.cred = "present"
    /\ last.exc = "NameError"
    /\ Tags(lineOut) = <<"SUBMODULE_ERROR">>

\* C15: a line that is valid JSON but no usable command (a value that is falsy or no
\* dict, a dict without 'cmd', a request tag with a field of its branch missing) gets
\* exactly one SUBMODULE_ERROR and no DID_* line, runs no wrapper operation, and the
\* loop goes on reading.
C15_UnusableLineOneError ==
    (\/ last.kind = "malformed"
     \/ /\ last.kind = "dict"
        /\ \/ last.data.cmd = NoCmd
           \/ last.data.cmd \in RequestTags /\ ~last.data.complete) =>
        /\ Tags(lineOut) = <<"SUBMODULE_ERROR">>
        /\ last.ops = <<>>
        /\ ~last.changed
        /\ InLoop

C15_Witness ==
    /\ last.kind = "dict"
    /\ last.data.cmd = "EXPLAIN_TOPIC"
    /\ ~last.data.complete
    /\ last.exc = "KeyError"
    /\ Tags(lineOut) = <<"SUBMODULE_ERROR">>
    /\ memND > 0

\* C16 as stated: with no llmModel in settings.json the conversation wrapper's handle
\* has the default model of the configured kind, gpt-4o for github_copilot and
\* gpt-3.5-turbo for openai.
C16_DefaultModelOfKind ==
    (pc = "loop" /\ nBuilt >= 2 /\ settings.llmModel = NoModel) =>
        llm.model_name = IF settings.llmProvider = "github_copilot" THEN "gpt-4o"
                                                                    ELSE "gpt-3.5-turbo"

\* A text of blanks only.
Blank(t) == \A i \in 1..Len(t) : t[i] = " "

\* t is text without the blanks at its two ends, and is not empty.
TrimOf(t, text) ==
    /\ t # <<>>
    /\ t[1] # " "
    /\ t[Len(t)] # " "
    /\ \E i, j \in 0..Len(text) :
           text = [k \in 1..i |-> " "] \o t \o [k \in 1..j |-> " "]

\* s is an initial part of t.
IsPrefix(s, t) == Len(s) <= Len(t) /\ s = SubSeq(t, 1, Len(s))

\* C17: save_token with a field that is empty or all blanks writes nothing to .env,
\* does not call the callback and leaves the dialog open; with any other field it calls
\* set_key with the trimmed text, then the callback (if one is set) once with that
\* text, then accept, in this order, and .env holds the trimmed text. When set_key or
\* the callback raises, the calls made are an initial part of that order.
C17_SaveTokenOrder ==
    saved.ran =>
        IF Blank(token_input)
        THEN /\ saved.log = <<Call("QMessageBox.warning", <<>>)>>
             /\ dotenv = saved.before
             /\ dialog = "open"
        ELSE \E i, j \in 1..Len(token_input) :
                LET t == SubSeq(token_input, i, j)
                    full == <<Call("set_key", t)>>
                                \o (IF callback THEN <<Call("callback", t)>> ELSE <<>>)
                                \o <<Call("accept", <<>>)>>
                IN  /\ TrimOf(t, token_input)
                    /\ IsPrefix(saved.log, full)
                    /\ (saved.exc = "none" =>
                            saved.log = full /\ dotenv = t /\ dialog = "accepted")
                    /\ (saved.exc # "none" => dialog = "open")
                    /\ (saved.log # <<>> => dotenv = t)
                    /\ (saved.log = <<>> => dotenv = saved.before)

C17_Witness ==
    /\ saved.ran
    /\ callback
    /\ token_input = <<" ", "x", " ">>
    /\ saved.before = <<"x", "x">>
    /\ dotenv = <<"x">>
    /\ dialog = "accepted"
    /\ Len(saved.log) = 3

\* C18 as stated: no line makes the process leave the loop once it is entered, and an
\* empty line or the end of input gets no line on stdout.
C18_LoopHasNoExit ==
    /\ pc \in {"startup", "loop"}
    /\ (last.kind = "empty" => lineOut = <<>> /\ InLoop)

====
